---- MODULE Spec2Model ----
(***************************************************************************)
(* Model of the image-generation server src/diffusion/qwen_server.py:      *)
(* the POST /generate handler generate_image, the sink upload_to_s3 and    *)
(* the entry point that serves requests with app.run.                      *)
(*                                                                         *)
(* Python strings are sequences of one-character strings, so that          *)
(* concatenation, formatting and parsing are computed and not assumed.     *)
(* A Python value is a record [t, s, n]: its type tag, its characters      *)
(* (for str) and its number (for int; for float the value in tenths).      *)
(***************************************************************************)
EXTENDS Integers, Sequences, FiniteSets, TLC

VARIABLES
    env,        \* the process environment read by os.getenv
    clock,      \* wall clock read by datetime.now(), seconds
    issued,     \* identifiers uuid.uuid4() has returned so far
    pc,         \* pc[r]: where request r's handler thread is
    body,       \* body[r]: the JSON body request r carries
    local,      \* local[r]: image_id and timestamp of the handler (lines 129-130)
    pipeCalls,  \* pipeCalls[r]: the calls request r made to the gateway pipe(...)
    s3Calls,    \* s3Calls[r]: the calls request r made to upload_to_s3(...)
    resp        \* resp[r]: the responses request r's handler returned

vars == <<env, clock, issued, pc, body, local, pipeCalls, s3Calls, resp>>

----------------------------------------------------------------------------
(* Bounds of the model *)

NumRequests == 2     \* requests in flight in the threaded server
MaxClock == 1        \* the wall clock takes the values 0..MaxClock

Requests == 1..NumRequests

----------------------------------------------------------------------------
(* Python values *)

None_ == [t |-> "none", s |-> <<>>, n |-> 0]
Missing == [t |-> "missing", s |-> <<>>, n |-> 0]   \* key absent / variable unset
PyStr(s) == [t |-> "str", s |-> s, n |-> 0]
PyInt(n) == [t |-> "int", s |-> <<>>, n |-> n]
PyFloat(tenths) == [t |-> "float", s |-> <<>>, n |-> tenths]

\* Truthy with the empty string taken for a value
TruthyEmptyStr(v) ==
    CASE v.t = "str" -> TRUE
      [] v.t \in {"int", "float"} -> v.n # 0
      [] OTHER -> FALSE

\* bool(v), as used by `not prompt` and all([...])
Truthy(v) ==
    CASE v.t = "str" -> v.s # <<>>
      [] v.t \in {"int", "float"} -> v.n # 0
      [] OTHER -> FALSE

\* dict.get(key, default): the default only when the key is absent
data_get(value, default) == IF value = Missing THEN default ELSE value

\* os.getenv(name, default): the default only when the variable is unset
os_getenv(value, default) == IF value = Missing THEN default ELSE value

DigitChars == <<"0", "1", "2", "3", "4", "5", "6", "7", "8", "9">>
IsDigit(c) == \E i \in 1..10 : DigitChars[i] = c
DigitVal(c) == (CHOOSE i \in 1..10 : DigitChars[i] = c) - 1
AllDigits(s) == s # <<>> /\ \A i \in 1..Len(s) : IsDigit(s[i])

RECURSIVE ParseDigits(_)
ParseDigits(s) ==
    IF s = <<>> THEN 0
    ELSE 10 * ParseDigits(SubSeq(s, 1, Len(s) - 1)) + DigitVal(s[Len(s)])

\* int(v): an int is itself, a string of decimal digits is parsed, anything
\* else raises ValueError.  [ok, v]
py_int(v) ==
    IF v.t = "int" THEN [ok |-> TRUE, v |-> v]
    ELSE IF v.t = "str" /\ AllDigits(v.s) THEN [ok |-> TRUE, v |-> PyInt(ParseDigits(v.s))]
    ELSE [ok |-> FALSE, v |-> None_]

\* float(v): a float is itself; strings "ddd" and "ddd.d" are parsed (the
\* value is kept in tenths); anything else raises ValueError.  [ok, v]
py_float(v) ==
    IF v.t = "float" THEN [ok |-> TRUE, v |-> v]
    ELSE IF v.t = "str" /\ AllDigits(v.s)
        THEN [ok |-> TRUE, v |-> PyFloat(10 * ParseDigits(v.s))]
    ELSE IF v.t = "str" /\ Len(v.s) >= 3 /\ v.s[Len(v.s) - 1] = "."
            /\ AllDigits(SubSeq(v.s, 1, Len(v.s) - 2)) /\ IsDigit(v.s[Len(v.s)])
        THEN [ok |-> TRUE,
              v |-> PyFloat(10 * ParseDigits(SubSeq(v.s, 1, Len(v.s) - 2))
                          + DigitVal(v.s[Len(v.s)]))]
    ELSE [ok |-> FALSE, v |-> None_]

----------------------------------------------------------------------------
(* Literals of the handler *)

DefaultSteps == 50
DefaultSeed == 42
DefaultCfgTenths == 40     \* 4.0

DefaultRegion == <<"u", "s", "-", "e", "a", "s", "t", "-", "1">>
DefaultAspectRatio == <<"1", "6", ":", "9">>
DefaultPositiveMagic ==
    <<"U", "l", "t", "r", "a", " ", "H", "D", ",", " ", "4", "K", ",", " ",
      "c", "i", "n", "e", "m", "a", "t", "i", "c", " ", "c", "o", "m", "p",
      "o", "s", "i", "t", "i", "o", "n", ".">>
DefaultNegativePrompt ==
    <<"u", "g", "l", "y", ",", " ", "d", "e", "f", "o", "r", "m", "e", "d",
      ",", " ", "d", "i", "s", "f", "i", "g", "u", "r", "e", "d", ",", " ",
      "p", "o", "o", "r", " ", "d", "e", "t", "a", "i", "l", "s", ",", " ",
      "b", "a", "d", " ", "a", "n", "a", "t", "o", "m", "y">>

\* the dict aspect_ratios, and its keys in insertion order
aspect_ratios ==
    (<<"1", ":", "1">> :> <<1328, 1328>>) @@
    (<<"1", "6", ":", "9">> :> <<1024, 768>>) @@
    (<<"9", ":", "1", "6">> :> <<928, 1664>>) @@
    (<<"4", ":", "3">> :> <<1472, 1140>>) @@
    (<<"3", ":", "4">> :> <<1140, 1472>>) @@
    (<<"3", ":", "2">> :> <<1584, 1056>>) @@
    (<<"2", ":", "3">> :> <<1056, 1584>>)

aspect_ratio_keys ==
    << <<"1", ":", "1">>, <<"1", "6", ":", "9">>, <<"9", ":", "1", "6">>,
       <<"4", ":", "3">>, <<"3", ":", "4">>, <<"3", ":", "2">>, <<"2", ":", "3">> >>

\* `aspect_ratio not in aspect_ratios`
InAspectRatios(v) == v.t = "str" /\ v.s \in DOMAIN aspect_ratios

\* Dimensions with the pair unpacked the wrong way round
DimensionsSwapped(label) == <<aspect_ratios[label][2], aspect_ratios[label][1]>>

\* `width, height = aspect_ratios[aspect_ratio]`
Dimensions(label) == aspect_ratios[label]

----------------------------------------------------------------------------
(* Responses.  A message is [text, list]: the literal text and, for the     *)
(* aspect-ratio message, the list of keys formatted into it.  str(e) of an  *)
(* exception is modelled by the exception's class name.                     *)

Msg(text) == [text |-> text, list |-> <<>>]
MsgMissingPrompt == Msg("Missing required field: prompt")
MsgS3Missing ==
    Msg("S3 configuration missing. Provide in request or set in environment variables")
MsgInvalidAspect ==
    [text |-> "Invalid aspect ratio. Choose from: ", list |-> aspect_ratio_keys]

\* `return jsonify({"error": ...}), status`
ErrorResponse(status, msg) == [status |-> status, body |-> [error |-> msg]]

\* the `except Exception as e` clause of generate_image
ExceptionResponse(exc) == ErrorResponse(500, Msg(exc))

----------------------------------------------------------------------------
(* generate_image up to the call of the gateway *)

\* `x or default`: the default also when the value is empty
or_else(value, default) == IF Truthy(value) THEN value ELSE default

\* StorageResolved written with `data.get(key) or os.getenv(NAME)`
StorageResolvedOrFallback(e, d) ==
    [s3_bucket |-> or_else(data_get(d.s3_bucket, None_), os_getenv(e.S3_BUCKET, None_)),
     aws_access_key_id |->
        or_else(data_get(d.aws_access_key_id, None_), os_getenv(e.AWS_ACCESS_KEY_ID, None_)),
     aws_secret_access_key |->
        or_else(data_get(d.aws_secret_access_key, None_),
                os_getenv(e.AWS_SECRET_ACCESS_KEY, None_)),
     aws_region |-> data_get(d.aws_region, os_getenv(e.AWS_REGION, PyStr(DefaultRegion)))]

\* lines 83-86
StorageResolved(e, d) ==
    [s3_bucket |-> data_get(d.s3_bucket, os_getenv(e.S3_BUCKET, None_)),
     aws_access_key_id |->
        data_get(d.aws_access_key_id, os_getenv(e.AWS_ACCESS_KEY_ID, None_)),
     aws_secret_access_key |->
        data_get(d.aws_secret_access_key, os_getenv(e.AWS_SECRET_ACCESS_KEY, None_)),
     aws_region |-> data_get(d.aws_region, os_getenv(e.AWS_REGION, PyStr(DefaultRegion)))]

\* line 89: all([s3_bucket, aws_access_key_id, aws_secret_access_key])
StorageConfigured(s) ==
    Truthy(s.s3_bucket) /\ Truthy(s.aws_access_key_id) /\ Truthy(s.aws_secret_access_key)

\* the default arguments of lines 97-99; Python evaluates them before
\* data.get is called, whether or not the request has the key
EnvDefaults(e) ==
    [num_inference_steps |->
        py_int(os_getenv(e.NUM_INFERENCE_STEPS, PyInt(DefaultSteps))),
     true_cfg_scale |->
        py_float(os_getenv(e.TRUE_CFG_SCALE, PyFloat(DefaultCfgTenths))),
     seed |-> py_int(os_getenv(e.DEFAULT_SEED, PyInt(DefaultSeed)))]

EnvDefaultsRaise(e) ==
    \/ ~EnvDefaults(e).num_inference_steps.ok
    \/ ~EnvDefaults(e).true_cfg_scale.ok
    \/ ~EnvDefaults(e).seed.ok

\* lines 94-99
Params(e, d) ==
    [negative_prompt |-> data_get(d.negative_prompt, PyStr(DefaultNegativePrompt)),
     positive_magic |-> data_get(d.positive_magic, PyStr(DefaultPositiveMagic)),
     aspect_ratio |-> data_get(d.aspect_ratio, PyStr(DefaultAspectRatio)),
     num_inference_steps |->
        data_get(d.num_inference_steps, EnvDefaults(e).num_inference_steps.v),
     true_cfg_scale |-> data_get(d.true_cfg_scale, EnvDefaults(e).true_cfg_scale.v),
     seed |-> data_get(d.seed, EnvDefaults(e).seed.v)]

\* ComposedPrompt that leaves the suffix out when it is empty
ComposedPromptSkipEmpty(prompt, positive_magic) ==
    IF positive_magic = <<>> THEN prompt ELSE prompt \o <<" ">> \o positive_magic

\* line 120: prompt + " " + positive_magic
ComposedPrompt(prompt, positive_magic) == prompt \o <<" ">> \o positive_magic

\* the keyword arguments of pipe(...), lines 119-127
PipeArgs(e, d) ==
    [prompt |-> ComposedPrompt(d.prompt.s, Params(e, d).positive_magic.s),
     negative_prompt |-> Params(e, d).negative_prompt,
     width |-> Dimensions(Params(e, d).aspect_ratio.s)[1],
     height |-> Dimensions(Params(e, d).aspect_ratio.s)[2],
     num_inference_steps |-> Params(e, d).num_inference_steps,
     true_cfg_scale |-> Params(e, d).true_cfg_scale,
     seed |-> Params(e, d).seed]

\* Validate with the aspect-ratio check moved before the storage check
ValidateAspectFirst(e, d) ==
    IF d.json = "malformed" THEN
        [kind |-> "respond", response |-> ExceptionResponse("BadRequest")]
    ELSE IF d.json # "object" THEN
        [kind |-> "respond", response |-> ExceptionResponse("AttributeError")]
    ELSE IF ~Truthy(d.prompt) THEN
        [kind |-> "respond", response |-> ErrorResponse(400, MsgMissingPrompt)]
    ELSE IF ~InAspectRatios(data_get(d.aspect_ratio, PyStr(DefaultAspectRatio))) THEN
        [kind |-> "respond", response |-> ErrorResponse(400, MsgInvalidAspect)]
    ELSE IF ~StorageConfigured(StorageResolved(e, d)) THEN
        [kind |-> "respond", response |-> ErrorResponse(400, MsgS3Missing)]
    ELSE IF EnvDefaultsRaise(e) THEN
        [kind |-> "respond", response |-> ExceptionResponse("ValueError")]
    ELSE IF d.prompt.t # "str" THEN
        [kind |-> "respond", response |-> ExceptionResponse("TypeError")]
    ELSE IF Params(e, d).positive_magic.t # "str" THEN
        [kind |-> "respond", response |-> ExceptionResponse("TypeError")]
    ELSE [kind |-> "pipe", args |-> PipeArgs(e, d)]

\* lines 74-127 in the order the code runs them: the response the handler
\* returns before it reaches the gateway, or "pipe" when it calls the gateway
Validate(e, d) ==
    IF d.json = "malformed" THEN
        \* line 75: request.json raises BadRequest
        [kind |-> "respond", response |-> ExceptionResponse("BadRequest")]
    ELSE IF d.json # "object" THEN
        \* line 78: data.get on a list
        [kind |-> "respond", response |-> ExceptionResponse("AttributeError")]
    ELSE IF ~Truthy(d.prompt) THEN
        [kind |-> "respond", response |-> ErrorResponse(400, MsgMissingPrompt)]
    ELSE IF ~StorageConfigured(StorageResolved(e, d)) THEN
        [kind |-> "respond", response |-> ErrorResponse(400, MsgS3Missing)]
    ELSE IF EnvDefaultsRaise(e) THEN
        [kind |-> "respond", response |-> ExceptionResponse("ValueError")]
    ELSE IF ~InAspectRatios(Params(e, d).aspect_ratio) THEN
        [kind |-> "respond", response |-> ErrorResponse(400, MsgInvalidAspect)]
    ELSE IF d.prompt.t # "str" THEN
        \* line 116: prompt[:100]
        [kind |-> "respond", response |-> ExceptionResponse("TypeError")]
    ELSE IF Params(e, d).positive_magic.t # "str" THEN
        \* line 120: str + None
        [kind |-> "respond", response |-> ExceptionResponse("TypeError")]
    ELSE [kind |-> "pipe", args |-> PipeArgs(e, d)]

----------------------------------------------------------------------------
(* generate_image after the gateway returned, and upload_to_s3 *)

\* datetime.now().strftime('%Y%m%d_%H%M%S'): the clock counts seconds of the
\* minute 2026-01-01 00:00
strftime(c) ==
    <<"2", "0", "2", "6", "0", "1", "0", "1", "_", "0", "0", "0", "0">>
        \o <<DigitChars[((c \div 10) % 10) + 1], DigitChars[(c % 10) + 1]>>

\* str(uuid.uuid4()): identifier number i, two characters wide
uuid_str(i) == <<"u", DigitChars[(i % 10) + 1]>>

\* DerivedKey named by the timestamp alone
DerivedKeyTimestampOnly(timestamp, image_id) ==
    <<"g", "e", "n", "e", "r", "a", "t", "e", "d", "_", "i", "m", "a", "g", "e", "s", "/">>
        \o timestamp \o <<".", "p", "n", "g">>

\* line 131: f"generated_images/{timestamp}_{image_id}.png"
DerivedKey(timestamp, image_id) ==
    <<"g", "e", "n", "e", "r", "a", "t", "e", "d", "_", "i", "m", "a", "g", "e", "s", "/">>
        \o timestamp \o <<"_">> \o image_id \o <<".", "p", "n", "g">>

\* line 131: s3_key = data.get('s3_key', f"...")
S3Key(d, timestamp, image_id) == data_get(d.s3_key, PyStr(DerivedKey(timestamp, image_id)))

\* the arguments of upload_to_s3(...), line 133
UploadArgs(e, d, timestamp, image_id) ==
    [s3_bucket |-> StorageResolved(e, d).s3_bucket,
     s3_key |-> S3Key(d, timestamp, image_id),
     aws_access_key_id |-> StorageResolved(e, d).aws_access_key_id,
     aws_secret_access_key |-> StorageResolved(e, d).aws_secret_access_key,
     aws_region |-> StorageResolved(e, d).aws_region]

\* line 60: f"https://{s3_bucket}.s3.{aws_region}.amazonaws.com/{s3_key}"
S3Url(a) ==
    <<"h", "t", "t", "p", "s", ":", "/", "/">> \o a.s3_bucket.s \o <<".", "s", "3", ".">>
        \o a.aws_region.s
        \o <<".", "a", "m", "a", "z", "o", "n", "a", "w", "s", ".", "c", "o", "m", "/">>
        \o a.s3_key.s

\* lines 135-149
SuccessResponse(e, d, a, timestamp) ==
    [status |-> 200,
     body |-> [success |-> TRUE,
               image_url |-> S3Url(a),
               s3_bucket |-> a.s3_bucket,
               s3_key |-> a.s3_key,
               metadata |-> [prompt |-> d.prompt,
                             negative_prompt |-> Params(e, d).negative_prompt,
                             aspect_ratio |-> Params(e, d).aspect_ratio,
                             width |-> Dimensions(Params(e, d).aspect_ratio.s)[1],
                             height |-> Dimensions(Params(e, d).aspect_ratio.s)[2],
                             seed |-> Params(e, d).seed,
                             timestamp |-> timestamp]]]

----------------------------------------------------------------------------
(* Inputs: process environments and JSON bodies.  A body is a record of    *)
(* the keys the handler reads (Missing: the key is absent) and `json`, the *)
(* shape of the payload: an object, an array, or text that is not JSON.    *)

EnvBase ==
    [S3_BUCKET |-> PyStr(<<"e", "b">>),
     AWS_ACCESS_KEY_ID |-> PyStr(<<"e", "a">>),
     AWS_SECRET_ACCESS_KEY |-> PyStr(<<"e", "s">>),
     AWS_REGION |-> Missing,
     NUM_INFERENCE_STEPS |-> Missing,
     TRUE_CFG_SCALE |-> Missing,
     DEFAULT_SEED |-> Missing]

\* environments that vary the storage configuration
StorageEnvs ==
    [S3_BUCKET : {Missing, PyStr(<<>>), PyStr(<<"e", "b">>)},
     AWS_ACCESS_KEY_ID : {Missing, PyStr(<<"e", "a">>)},
     AWS_SECRET_ACCESS_KEY : {Missing, PyStr(<<"e", "s">>)},
     AWS_REGION : {Missing},
     NUM_INFERENCE_STEPS : {Missing},
     TRUE_CFG_SCALE : {Missing},
     DEFAULT_SEED : {Missing}]

\* environments that vary the generation defaults, storage configured
ParamEnvs ==
    [S3_BUCKET : {PyStr(<<"e", "b">>)},
     AWS_ACCESS_KEY_ID : {PyStr(<<"e", "a">>)},
     AWS_SECRET_ACCESS_KEY : {PyStr(<<"e", "s">>)},
     AWS_REGION : {Missing, PyStr(<<"e", "u">>)},
     NUM_INFERENCE_STEPS : {Missing, PyStr(<<"3", "0">>), PyStr(<<"a", "b", "c">>)},
     TRUE_CFG_SCALE : {Missing, PyStr(<<"7", ".", "5">>), PyStr(<<"a", "b", "c">>)},
     DEFAULT_SEED : {Missing, PyStr(<<"7">>), PyStr(<<"a", "b", "c">>)}]

Envs == StorageEnvs \cup ParamEnvs

Labels == DOMAIN aspect_ratios \cup {<<"5", ":", "4">>}

\* bodies that vary what the three validation checks read
ValidationBodies ==
    [json : {"object"},
     prompt : {Missing, None_, PyStr(<<>>), PyStr(<<"c", "a", "t">>), PyInt(5)},
     s3_bucket : {Missing, PyStr(<<>>), PyStr(<<"r", "b">>)},
     aws_access_key_id : {Missing, PyStr(<<>>), PyStr(<<"r", "a">>)},
     aws_secret_access_key : {Missing, PyStr(<<>>), PyStr(<<"r", "s">>)},
     aws_region : {Missing},
     negative_prompt : {Missing},
     positive_magic : {Missing},
     aspect_ratio : {Missing, None_} \cup {PyStr(l) : l \in Labels},
     num_inference_steps : {Missing},
     true_cfg_scale : {Missing},
     seed : {Missing},
     s3_key : {Missing}]

\* bodies that vary the optional generation parameters
ParamBodies ==
    [json : {"object"},
     prompt : {Missing, PyStr(<<"c", "a", "t">>)},
     s3_bucket : {Missing},
     aws_access_key_id : {Missing},
     aws_secret_access_key : {Missing},
     aws_region : {Missing, PyStr(<<"a", "p">>)},
     negative_prompt : {Missing},
     positive_magic : {Missing},
     aspect_ratio : {Missing, PyStr(<<"5", ":", "4">>)},
     num_inference_steps : {Missing, PyInt(20)},
     true_cfg_scale : {Missing, PyFloat(35)},
     seed : {Missing, PyInt(7)},
     s3_key : {Missing}]

\* bodies that vary the texts and the storage key
TextBodies ==
    [json : {"object"},
     prompt : {Missing, PyStr(<<>>), PyStr(<<"c", "a", "t">>), PyInt(5)},
     s3_bucket : {Missing},
     aws_access_key_id : {Missing},
     aws_secret_access_key : {Missing},
     aws_region : {Missing},
     negative_prompt : {Missing, PyStr(<<"d", "i", "m">>)},
     positive_magic : {Missing, None_, PyStr(<<>>), PyStr(<<"h", "d">>)},
     aspect_ratio : {Missing},
     num_inference_steps : {Missing},
     true_cfg_scale : {Missing},
     seed : {Missing},
     s3_key : {Missing, PyStr(<<"k", ".", "p", "n", "g">>)}]

\* payloads that are not a JSON object
OtherBodies ==
    [json : {"array", "malformed"},
     prompt : {Missing}, s3_bucket : {Missing}, aws_access_key_id : {Missing},
     aws_secret_access_key : {Missing}, aws_region : {Missing},
     negative_prompt : {Missing}, positive_magic : {Missing},
     aspect_ratio : {Missing}, num_inference_steps : {Missing},
     true_cfg_scale : {Missing}, seed : {Missing}, s3_key : {Missing}]

\* the bodies sent to a server that runs in environment e
BodiesFor(e) ==
    (IF e \in StorageEnvs THEN ValidationBodies ELSE {})
        \cup (IF e \in ParamEnvs THEN ParamBodies ELSE {})
        \cup (IF e = EnvBase THEN TextBodies ELSE {})
        \cup OtherBodies

\* the bodies of the requests that are in flight together
ConcurrentBodies ==
    {b \in TextBodies :
        /\ b.prompt \in {Missing, PyStr(<<"c", "a", "t">>)}
        /\ b.negative_prompt = Missing
        /\ b.positive_magic = Missing}

NoBody ==
    [json |-> "none",
     prompt |-> Missing, s3_bucket |-> Missing, aws_access_key_id |-> Missing,
     aws_secret_access_key |-> Missing, aws_region |-> Missing,
     negative_prompt |-> Missing, positive_magic |-> Missing,
     aspect_ratio |-> Missing, num_inference_steps |-> Missing,
     true_cfg_scale |-> Missing, seed |-> Missing, s3_key |-> Missing]

NoLocal == [image_id |-> <<>>, timestamp |-> <<>>]

----------------------------------------------------------------------------
(* The server.  app.run (line 158) hands each request to a thread of its   *)
(* own, which runs generate_image; the handler blocks in pipe(...) and in  *)
(* upload_to_s3(...), and the threads interleave at those calls.           *)

InitIn(E) ==
    /\ env \in E
    /\ clock = 0
    /\ issued = {}
    /\ pc = [r \in Requests |-> "idle"]
    /\ body = [r \in Requests |-> NoBody]
    /\ local = [r \in Requests |-> NoLocal]
    /\ pipeCalls = [r \in Requests |-> <<>>]
    /\ s3Calls = [r \in Requests |-> <<>>]
    /\ resp = [r \in Requests |-> <<>>]

\* PcAfterException of a handler that runs the request again after a failure
PcAfterExceptionRetry == "received"

\* where the handler goes after `except Exception` returned the 500 response
PcAfterException == "done"

\* a POST /generate arrives and is dispatched to a handler thread
Receive(r, B) ==
    /\ pc[r] = "idle"
    /\ \E b \in B :
        body' = [body EXCEPT ![r] = b]
    /\ pc' = [pc EXCEPT ![r] = "received"]
    /\ UNCHANGED <<env, clock, issued, local, pipeCalls, s3Calls, resp>>

\* lines 74-118: the handler returns an error response
Reject(r) ==
    /\ pc[r] = "received"
    /\ Validate(env, body[r]).kind = "respond"
    /\ resp' = [resp EXCEPT ![r] = Append(@, Validate(env, body[r]).response)]
    /\ pc' = [pc EXCEPT ![r] = "done"]
    /\ UNCHANGED <<env, clock, issued, body, local, pipeCalls, s3Calls>>

\* lines 74-127: the handler calls pipe(...) and blocks in it
CallPipe(r) ==
    /\ pc[r] = "received"
    /\ Validate(env, body[r]).kind = "pipe"
    /\ pipeCalls' = [pipeCalls EXCEPT ![r] = Append(@, Validate(env, body[r]).args)]
    /\ pc' = [pc EXCEPT ![r] = "generating"]
    /\ UNCHANGED <<env, clock, issued, body, local, s3Calls, resp>>

\* pipe(...) raises: lines 151-153
PipeRaises(r) ==
    /\ pc[r] = "generating"
    /\ resp' = [resp EXCEPT ![r] = Append(@, ExceptionResponse("InferenceError"))]
    /\ pc' = [pc EXCEPT ![r] = PcAfterException]
    /\ UNCHANGED <<env, clock, issued, body, local, pipeCalls, s3Calls>>

\* pipe(...) returns the image: lines 127-133, up to the blocking upload.
\* uuid.uuid4() returns an identifier it has not returned before.
PipeReturns(r) ==
    /\ pc[r] = "generating"
    /\ \E i \in Requests \ issued :
        /\ issued' = issued \cup {i}
        /\ local' = [local EXCEPT ![r] =
                        [image_id |-> uuid_str(i), timestamp |-> strftime(clock)]]
        /\ s3Calls' = [s3Calls EXCEPT ![r] =
                        Append(@, UploadArgs(env, body[r], strftime(clock), uuid_str(i)))]
    /\ pc' = [pc EXCEPT ![r] = "uploading"]
    /\ UNCHANGED <<env, clock, body, pipeCalls, resp>>

\* upload_to_s3 raises (lines 64-66, or any other exception): lines 151-153
UploadRaises(r) ==
    /\ pc[r] = "uploading"
    /\ resp' = [resp EXCEPT ![r] = Append(@, ExceptionResponse("ClientError"))]
    /\ pc' = [pc EXCEPT ![r] = PcAfterException]
    /\ UNCHANGED <<env, clock, issued, body, local, pipeCalls, s3Calls>>

\* upload_to_s3 returns the URL: lines 60-62 and 135-149
UploadReturns(r) ==
    /\ pc[r] = "uploading"
    /\ resp' = [resp EXCEPT ![r] =
                  Append(@, SuccessResponse(env, body[r], s3Calls[r][Len(s3Calls[r])],
                                            local[r].timestamp))]
    /\ pc' = [pc EXCEPT ![r] = "done"]
    /\ UNCHANGED <<env, clock, issued, body, local, pipeCalls, s3Calls>>

\* the wall clock advances by a second
Tick ==
    /\ clock < MaxClock
    /\ clock' = clock + 1
    /\ UNCHANGED <<env, issued, pc, body, local, pipeCalls, s3Calls, resp>>

Step(r) ==
    \/ Reject(r)
    \/ CallPipe(r)
    \/ PipeRaises(r)
    \/ PipeReturns(r)
    \/ UploadRaises(r)
    \/ UploadReturns(r)

\* the threaded server: NumRequests requests in flight
Init == InitIn({EnvBase})

Next ==
    \/ \E r \in Requests : Receive(r, ConcurrentBodies)
    \/ \E r \in Requests : Step(r)
    \/ Tick

Spec == Init /\ [][Next]_vars

\* the bodies of the requests whose stages are followed to their end
PipelineBodies == {b \in ConcurrentBodies : b.s3_key = Missing}

NextFair ==
    \/ \E r \in Requests : Receive(r, PipelineBodies)
    \/ \E r \in Requests : Step(r)
    \/ Tick

\* the threaded server where every handler thread keeps running and the
\* blocking calls end
FairSpec == Init /\ [][NextFair]_vars /\ \A r \in Requests : WF_vars(Step(r))

\* one request, over every environment and body of the input sets
InitOne == InitIn(Envs)

NextOne ==
    \/ Receive(1, BodiesFor(env))
    \/ Step(1)
    \/ Tick

SpecOne == InitOne /\ [][NextOne]_vars

----------------------------------------------------------------------------
(* Vocabulary of the properties, written from the specification            *)

\* the aspect-ratio table of the specification's data model
SpecTable ==
    (<<"1", ":", "1">> :> <<1328, 1328>>) @@
    (<<"1", "6", ":", "9">> :> <<1024, 768>>) @@
    (<<"9", ":", "1", "6">> :> <<928, 1664>>) @@
    (<<"4", ":", "3">> :> <<1472, 1140>>) @@
    (<<"3", ":", "4">> :> <<1140, 1472>>) @@
    (<<"3", ":", "2">> :> <<1584, 1056>>) @@
    (<<"2", ":", "3">> :> <<1056, 1584>>)

SpecPositiveMagic ==
    <<"U", "l", "t", "r", "a", " ", "H", "D", ",", " ", "4", "K", ",", " ",
      "c", "i", "n", "e", "m", "a", "t", "i", "c", " ", "c", "o", "m", "p",
      "o", "s", "i", "t", "i", "o", "n", ".">>

\* a field that is absent, null or the empty string
Unset(v) == v \in {Missing, None_, PyStr(<<>>)}

\* request value when the request has the field, else the environment's
RequestThenEnv(requested, environment) ==
    IF requested # Missing THEN requested ELSE environment

IsObject(r) == body[r].json = "object"
PromptUnset(r) == Unset(body[r].prompt)
RequestedLabel(r) ==
    IF body[r].aspect_ratio = Missing THEN PyStr(<<"1", "6", ":", "9">>)
    ELSE body[r].aspect_ratio
LabelSupported(r) ==
    RequestedLabel(r).t = "str" /\ RequestedLabel(r).s \in DOMAIN SpecTable
BucketResolved(r) == RequestThenEnv(body[r].s3_bucket, env.S3_BUCKET)
KeyIdResolved(r) == RequestThenEnv(body[r].aws_access_key_id, env.AWS_ACCESS_KEY_ID)
SecretResolved(r) ==
    RequestThenEnv(body[r].aws_secret_access_key, env.AWS_SECRET_ACCESS_KEY)
StorageUnset(r) ==
    Unset(BucketResolved(r)) \/ Unset(KeyIdResolved(r)) \/ Unset(SecretResolved(r))

\* the environment's numeric defaults are unset or well-formed numbers
EnvNumbersParse ==
    /\ env.NUM_INFERENCE_STEPS = Missing \/ AllDigits(env.NUM_INFERENCE_STEPS.s)
    /\ env.TRUE_CFG_SCALE = Missing \/ env.TRUE_CFG_SCALE.s = <<"7", ".", "5">>
    /\ env.DEFAULT_SEED = Missing \/ AllDigits(env.DEFAULT_SEED.s)

Responded(r) == pc[r] = "done" /\ Len(resp[r]) >= 1
Status(r) == resp[r][1].status
ErrorIs(r, status, text) ==
    /\ resp[r][1].status = status
    /\ DOMAIN resp[r][1].body = {"error"}
    /\ resp[r][1].body.error.text = text

TextMissingPrompt == "Missing required field: prompt"
TextStorage ==
    "S3 configuration missing. Provide in request or set in environment variables"
TextAspect == "Invalid aspect ratio. Choose from: "

\* the 400 response names exactly the seven labels of the table
NamesAllowedSet(r) ==
    /\ ErrorIs(r, 400, TextAspect)
    /\ {resp[r][1].body.error.list[i] : i \in 1..Len(resp[r][1].body.error.list)}
          = DOMAIN SpecTable

----------------------------------------------------------------------------
(* C1 *)

\* C1: a request whose prompt is missing or empty is answered with the 400
\* missing-prompt error, whatever its other fields and the environment are,
\* and it never calls the gateway or the sink.
C1_MissingPromptRejected ==
    \A r \in Requests :
        (IsObject(r) /\ PromptUnset(r)) =>
            /\ pipeCalls[r] = <<>>
            /\ s3Calls[r] = <<>>
            /\ pc[r] \in {"received", "done"}
            /\ pc[r] = "done" =>
                  /\ Len(resp[r]) = 1
                  /\ ErrorIs(r, 400, TextMissingPrompt)

\* a request with an empty prompt was answered in an environment that has
\* no storage configuration at all
C1_Witness ==
    \E r \in Requests :
        /\ IsObject(r) /\ body[r].prompt = PyStr(<<>>) /\ Responded(r)
        /\ env.S3_BUCKET = Missing /\ body[r].s3_bucket = Missing

----------------------------------------------------------------------------
(* C2 *)

\* C2 as stated: the checks run in the order prompt, aspect_ratio, storage,
\* so a request with a prompt and an unsupported aspect_ratio gets the
\* aspect-ratio error whether or not its storage configuration resolves.
C2_OrderAsStated ==
    \A r \in Requests :
        (IsObject(r) /\ Responded(r) /\ ~PromptUnset(r)
            /\ RequestedLabel(r).t = "str" /\ ~LabelSupported(r)) =>
            ErrorIs(r, 400, TextAspect)

\* C2 amended: the handler checks (1) the prompt, (2) the storage
\* configuration, (3) the aspect_ratio, and the first check that fails in that
\* order decides the 400 error; between (2) and (3) an environment default
\* that is not a number ends the request with a 500.
C2_OrderInCode ==
    \A r \in Requests :
        (IsObject(r) /\ Responded(r)) =>
            IF PromptUnset(r) THEN ErrorIs(r, 400, TextMissingPrompt)
            ELSE IF StorageUnset(r) THEN ErrorIs(r, 400, TextStorage)
            ELSE IF ~EnvNumbersParse THEN Status(r) = 500
            ELSE IF ~LabelSupported(r) THEN ErrorIs(r, 400, TextAspect)
            ELSE Status(r) # 400

\* a request with a prompt, an unsupported aspect_ratio and no storage
\* configuration was answered
C2_Witness ==
    \E r \in Requests :
        /\ IsObject(r) /\ Responded(r)
        /\ body[r].prompt = PyStr(<<"c", "a", "t">>)
        /\ body[r].aspect_ratio = PyStr(<<"5", ":", "4">>)
        /\ StorageUnset(r)

----------------------------------------------------------------------------
(* C3 *)

\* the gateway gets, and the response echoes, the table's pair
TablePairUsed(r) ==
    /\ pipeCalls[r] # <<>> =>
          /\ LabelSupported(r)
          /\ <<pipeCalls[r][1].width, pipeCalls[r][1].height>>
                = SpecTable[RequestedLabel(r).s]
    /\ (Responded(r) /\ Status(r) = 200) =>
          /\ resp[r][1].body.metadata.aspect_ratio = RequestedLabel(r)
          /\ <<resp[r][1].body.metadata.width, resp[r][1].body.metadata.height>>
                = SpecTable[RequestedLabel(r).s]

\* C3 as stated: the gateway is called with the table's pair only, and a
\* request (with a prompt) whose label is not in the table fails with the 400
\* error that names the allowed set, without a gateway call.
C3_AsStated ==
    \A r \in Requests :
        /\ TablePairUsed(r)
        /\ (IsObject(r) /\ ~PromptUnset(r)
              /\ RequestedLabel(r).t = "str" /\ ~LabelSupported(r)) =>
              /\ pipeCalls[r] = <<>>
              /\ Responded(r) => NamesAllowedSet(r)

\* C3 amended: the gateway is called with the table's pair only; a request
\* whose label is not in the table never reaches the gateway and fails, and it
\* fails with the 400 error naming the allowed set when its prompt is non-empty,
\* its storage configuration resolves and the environment's numeric defaults
\* are numbers (the storage check and the defaults come first in the code).
C3_TablePair ==
    \A r \in Requests :
        /\ TablePairUsed(r)
        /\ (IsObject(r) /\ ~LabelSupported(r)) =>
              /\ pipeCalls[r] = <<>>
              /\ Responded(r) => Status(r) \in {400, 500}
              /\ (Responded(r) /\ ~PromptUnset(r) /\ ~StorageUnset(r) /\ EnvNumbersParse)
                    => NamesAllowedSet(r)

\* a 9:16 request was answered with success
C3_Witness ==
    \E r \in Requests :
        /\ body[r].aspect_ratio = PyStr(<<"9", ":", "1", "6">>)
        /\ Responded(r) /\ Status(r) = 200
        /\ pipeCalls[r][1].width = 928 /\ pipeCalls[r][1].height = 1664

----------------------------------------------------------------------------
(* C4 *)

\* C4: for a request with a non-empty prompt and a supported aspect_ratio,
\* bucket, access key id and secret key each resolve to the request's value
\* when the request has the field and to the environment's otherwise; the
\* request is rejected with the 400 storage-configuration error exactly when
\* one of the three is unset after that, and then gateway and sink are not
\* called.
C4_StorageResolution ==
    \A r \in Requests :
        (IsObject(r) /\ ~PromptUnset(r) /\ LabelSupported(r)) =>
            /\ Responded(r) => (ErrorIs(r, 400, TextStorage) <=> StorageUnset(r))
            /\ StorageUnset(r) => (pipeCalls[r] = <<>> /\ s3Calls[r] = <<>>)
            /\ s3Calls[r] # <<>> =>
                  /\ s3Calls[r][1].s3_bucket = BucketResolved(r)
                  /\ s3Calls[r][1].aws_access_key_id = KeyIdResolved(r)
                  /\ s3Calls[r][1].aws_secret_access_key = SecretResolved(r)

\* a request that sent an empty bucket was answered where the environment
\* has a bucket
C4_Witness ==
    \E r \in Requests :
        /\ IsObject(r) /\ ~PromptUnset(r) /\ LabelSupported(r) /\ Responded(r)
        /\ body[r].s3_bucket = PyStr(<<>>)
        /\ env.S3_BUCKET = PyStr(<<"e", "b">>)
        /\ ~Unset(KeyIdResolved(r)) /\ ~Unset(SecretResolved(r))

----------------------------------------------------------------------------
(* C5 *)

\* the request's input is invalid: no JSON object, a failed validation check
\* or a text field that is no text
InvalidInput(r) ==
    \/ ~IsObject(r)
    \/ PromptUnset(r)
    \/ StorageUnset(r)
    \/ ~LabelSupported(r)
    \/ body[r].prompt.t # "str"
    \/ body[r].positive_magic.t \notin {"missing", "str"}

\* C5: a failed request is answered 400 exactly when the failure is in the
\* request's input and 500 exactly when it arises in the gateway, in the sink
\* or unexpectedly, and the body carries the error message alone.
C5_StatusClasses ==
    \A r \in Requests :
        (Responded(r) /\ Status(r) # 200) =>
            /\ DOMAIN resp[r][1].body = {"error"}
            /\ Status(r) \in {400, 500}
            /\ (InvalidInput(r) /\ EnvNumbersParse) => Status(r) = 400
            /\ ~InvalidInput(r) => Status(r) = 500

----------------------------------------------------------------------------
(* C6 *)

\* C6: two requests that reach the upload without a storage key of their
\* own are stored under distinct keys of the form
\* generated_images/{timestamp}_{unique_id}.png, also when they carry the same
\* parameters and are stored in the same second.
C6_DistinctKeys ==
    /\ \A r \in Requests :
          (s3Calls[r] # <<>> /\ body[r].s3_key = Missing) =>
              s3Calls[r][1].s3_key =
                  PyStr(<<"g", "e", "n", "e", "r", "a", "t", "e", "d", "_",
                          "i", "m", "a", "g", "e", "s", "/">>
                        \o local[r].timestamp \o <<"_">> \o local[r].image_id
                        \o <<".", "p", "n", "g">>)
    /\ \A r1, r2 \in Requests :
          (/\ r1 # r2
           /\ s3Calls[r1] # <<>> /\ body[r1].s3_key = Missing
           /\ s3Calls[r2] # <<>> /\ body[r2].s3_key = Missing) =>
              s3Calls[r1][1].s3_key # s3Calls[r2][1].s3_key

\* two requests with the same body and no storage key were both stored in
\* the same second
C6_Witness ==
    \E r1, r2 \in Requests :
        /\ r1 # r2
        /\ body[r1] = body[r2] /\ body[r1].s3_key = Missing
        /\ Responded(r1) /\ Status(r1) = 200
        /\ Responded(r2) /\ Status(r2) = 200
        /\ local[r1].timestamp = local[r2].timestamp

----------------------------------------------------------------------------
(* C7 *)

\* request value, else the environment's value read as a number, else the literal
StepsExpected(r) ==
    IF body[r].num_inference_steps # Missing THEN body[r].num_inference_steps
    ELSE IF env.NUM_INFERENCE_STEPS # Missing
        THEN PyInt(ParseDigits(env.NUM_INFERENCE_STEPS.s))
    ELSE PyInt(50)
CfgExpected(r) ==
    IF body[r].true_cfg_scale # Missing THEN body[r].true_cfg_scale
    ELSE IF env.TRUE_CFG_SCALE # Missing THEN PyFloat(75)
    ELSE PyFloat(40)
SeedExpected(r) ==
    IF body[r].seed # Missing THEN body[r].seed
    ELSE IF env.DEFAULT_SEED # Missing THEN PyInt(ParseDigits(env.DEFAULT_SEED.s))
    ELSE PyInt(42)
RegionExpected(r) ==
    IF body[r].aws_region # Missing THEN body[r].aws_region
    ELSE IF env.AWS_REGION # Missing THEN env.AWS_REGION
    ELSE PyStr(<<"u", "s", "-", "e", "a", "s", "t", "-", "1">>)

\* every environment default the request does not override is a number
UsedEnvNumbersParse(r) ==
    /\ \/ body[r].num_inference_steps # Missing
       \/ env.NUM_INFERENCE_STEPS = Missing \/ AllDigits(env.NUM_INFERENCE_STEPS.s)
    /\ \/ body[r].true_cfg_scale # Missing
       \/ env.TRUE_CFG_SCALE = Missing \/ env.TRUE_CFG_SCALE.s = <<"7", ".", "5">>
    /\ \/ body[r].seed # Missing
       \/ env.DEFAULT_SEED = Missing \/ AllDigits(env.DEFAULT_SEED.s)

\* C7: steps, guidance scale, seed and region resolve request > environment
\* > literal, and a field the request supplies makes the environment's value
\* for it irrelevant: an otherwise valid request whose unsupplied defaults are
\* well-formed reaches the gateway with exactly those values.
C7_Precedence ==
    \A r \in Requests :
        (/\ IsObject(r) /\ ~InvalidInput(r)
         /\ pc[r] \in {"generating", "uploading", "done"}
         /\ UsedEnvNumbersParse(r)) =>
            /\ pipeCalls[r] # <<>>
            /\ pipeCalls[r][1].num_inference_steps = StepsExpected(r)
            /\ pipeCalls[r][1].true_cfg_scale = CfgExpected(r)
            /\ pipeCalls[r][1].seed = SeedExpected(r)
            /\ s3Calls[r] # <<>> => s3Calls[r][1].aws_region = RegionExpected(r)

----------------------------------------------------------------------------
(* C8 *)

\* C8: the prompt the gateway gets is the caller's prompt, one space, and
\* positive_magic: the caller's when supplied (also when empty), else the
\* default text.
C8_ComposedPrompt ==
    \A r \in Requests :
        pipeCalls[r] # <<>> =>
            pipeCalls[r][1].prompt =
                body[r].prompt.s \o <<" ">>
                    \o (IF body[r].positive_magic = Missing THEN SpecPositiveMagic
                        ELSE body[r].positive_magic.s)

\* the gateway was called for a request that supplied an empty positive_magic
C8_Witness ==
    \E r \in Requests :
        /\ pipeCalls[r] # <<>>
        /\ body[r].positive_magic = PyStr(<<>>)
        /\ pipeCalls[r][1].prompt = <<"c", "a", "t", " ">>

----------------------------------------------------------------------------
(* C9 *)

\* the order of the stages of one request
StageOrder ==
    {<<"idle", "received">>, <<"received", "generating">>, <<"received", "done">>,
     <<"generating", "uploading">>, <<"generating", "done">>, <<"uploading", "done">>}

C9_OnceEach ==
    \A r \in Requests :
        /\ Len(pipeCalls[r]) <= 1
        /\ Len(s3Calls[r]) <= 1
        /\ Len(resp[r]) <= 1
        /\ s3Calls[r] # <<>> => (pipeCalls[r] # <<>> /\ pc[r] \in {"uploading", "done"})
        /\ pc[r] = "done" <=> Len(resp[r]) = 1
        /\ (resp[r] # <<>> /\ resp[r][1].status = 200) => s3Calls[r] # <<>>
        /\ pc[r] = "generating" => (pipeCalls[r] # <<>> /\ s3Calls[r] = <<>>)
        /\ pc[r] \in {"idle", "received"} => (pipeCalls[r] = <<>> /\ s3Calls[r] = <<>>)

C9_Steps ==
    \A r \in Requests :
        /\ pc'[r] # pc[r] => <<pc[r], pc'[r]>> \in StageOrder
        /\ pipeCalls'[r] # pipeCalls[r] => (pc[r] = "received" /\ pc'[r] = "generating")
        /\ s3Calls'[r] # s3Calls[r] => (pc[r] = "generating" /\ pc'[r] = "uploading")
        /\ (resp'[r] # resp[r] /\ resp'[r][Len(resp'[r])].status = 200)
              => (pc[r] = "uploading" /\ pc'[r] = "done")
        /\ pc[r] = "done" =>
              /\ pc'[r] = "done" /\ resp'[r] = resp[r]
              /\ pipeCalls'[r] = pipeCalls[r] /\ s3Calls'[r] = s3Calls[r]

\* C9: a request goes through validate, gateway, sink, respond in that
\* order, each at most once and without a retry; the sink is called only after
\* the gateway returned for that request, success is answered only after the
\* sink returned, and every received request ends in one terminal response,
\* after which nothing happens for it.
C9_Pipeline ==
    /\ []C9_OnceEach
    /\ [][C9_Steps]_vars
    /\ \A r \in Requests : (pc[r] = "received") ~> (pc[r] = "done")

\* a request failed in the sink after its gateway call returned
C9_Witness ==
    \E r \in Requests :
        /\ pc[r] = "done" /\ Len(pipeCalls[r]) = 1 /\ Len(s3Calls[r]) = 1
        /\ Len(resp[r]) = 1 /\ resp[r][1].status = 500

----------------------------------------------------------------------------
(* C10 *)

\* C10: in the server the entry point starts, at most one request is inside
\* the gateway at any time.
C10_SingleFlight == Cardinality({r \in Requests : pc[r] = "generating"}) <= 1

====
